---- MODULE Spec2Model ----
(***************************************************************************)
(* Model of hooks/tk-multi-publish2/maya.basic/collector.py               *)
(* (MayaSceneCollector).  The collector walks the host application's       *)
(* current document and the project directories on disk and adds items to *)
(* the publisher's item tree.                                              *)
(*                                                                         *)
(* A path is a sequence of path components; the empty sequence is the     *)
(* empty string (falsy in Python, and the current directory once joined). *)
(* An item is a record; the tree is the sequence of all items created so  *)
(* far, an item's id is its index, and id 0 is the root item the          *)
(* publisher hands to the hook.                                            *)
(***************************************************************************)
EXTENDS Integers, Sequences, FiniteSets, TLC

\* ---------------------------------------------------------------- bounds
\* longest directory listing the file system holds
MaxDirEntries == 2
\* number of hook calls in one run
MaxCalls == 2

\* ------------------------------------------------------------ universe
\* names a directory listing is drawn from, in the order os.listdir
\* gives them
EntryOrder == <<"notes.txt", "geo.abc", "blast.mov">>
EntryNames == {EntryOrder[i] : i \in 1..Len(EntryOrder)}
\* project roots: the ones that can hold directories on disk, and the ones
\* handed to a collector that is called on its own
DiskRoots == {<<"proj">>}
\* workspace roots the host application can report ("" when none)
WorkspaceRoots == {<<>>, <<"proj">>}
\* current document paths the host can report ("" for an unsaved scene)
ScenePaths == {<<>>, <<"proj", "scenes", "shot.ma">>}
\* paths handed to process_file
FilePaths == {<<"proj", "scenes", "shot.ma">>,
              <<"scenes", "shot.ma">>,
              <<"proj", "work", "shot.ma">>,
              <<"proj", "scenes", "notes.txt">>}

RootItem == 0
NoItem == -1
NoPath == <<"<none>">>

VARIABLES items, fs, scenePath, workspaceRoot, last, history

vars == <<items, fs, scenePath, workspaceRoot, last, history>>

\* ------------------------------------------------------------- os.path
\* os.path.join(a, b)
join(a, b) == a \o <<b>>

\* os.path.basename(p)
basename(p) == IF p = <<>> THEN "" ELSE p[Len(p)]

\* os.path.dirname(p)
dirname(p) == IF Len(p) <= 1 THEN <<>> ELSE SubSeq(p, 1, Len(p) - 1)

\* os.path.exists(p): the directories on disk are the domain of fs
exists(p) == p \in DOMAIN fs

\* os.listdir(p): the entries of a directory; raises OSError for a path
\* that does not exist.  Every path of fs is a directory that can be listed.
listdir(p) ==
    IF p \in DOMAIN fs THEN [raised |-> FALSE, names |-> fs[p]]
    ELSE [raised |-> TRUE, names |-> <<>>]

\* ------------------------------------------- the publisher framework
\* publisher.util.get_file_path_components(path)
get_file_path_components(path) ==
    [folder |-> dirname(path), filename |-> basename(path)]

\* the base collector's classification of a file name by its extension
ItemTypeOf(name) ==
    CASE name \in {"shot.ma"} -> "file.maya"
      [] name \in {"geo.abc"} -> "file.alembic"
      [] name \in {"blast.mov"} -> "file.movie"
      [] OTHER -> "file.unknown"

\* HookBaseClass._get_item_info(path)
get_item_info(path) ==
    [display_name |-> basename(path), item_type |-> ItemTypeOf(basename(path))]

Event(op, item, path) == [op |-> op, item |-> item, path |-> path]

\* parent_item.create_item(type, type_display, name): appends a child
create_item(st, parent, type, type_display, name) ==
    LET id == Len(st.items) + 1
        it == [parent |-> parent, type |-> type,
               type_display |-> type_display, name |-> name,
               properties |-> <<>>, icon |-> NoPath]
    IN [items |-> Append(st.items, it),
        trace |-> Append(st.trace, Event("create_item", parent, <<name>>)),
        ret |-> id, raised |-> st.raised]

\* HookBaseClass.process_file(parent_item, path): classifies the path,
\* creates one item under parent_item and records the path on it
base_process_file(st, parent, path) ==
    LET info == get_item_info(path)
        c == create_item(st, parent, info.item_type, "File", info.display_name)
        id == c.ret
    IN [items |-> [c.items EXCEPT ![id].properties = ("path" :> path)],
        trace |-> Append(st.trace, Event("base.process_file", parent, path)),
        ret |-> id, raised |-> st.raised]

\* item.properties[key] = value
set_property(its, id, key, value) ==
    [its EXCEPT ![id].properties = (key :> value) @@ its[id].properties]

\* item.set_icon_from_path(path)
set_icon_from_path(its, id, path) == [its EXCEPT ![id].icon = path]

Log(st, op, item, path) ==
    [st EXCEPT !.trace = Append(st.trace, Event(op, item, path))]

\* --------------------------------------------------- MayaSceneCollector
\* cache_dir = os.path.join(project_root, "cache", "alembic")
alembic_cache_dir(project_root) == join(join(project_root, "cache"), "alembic")

\* movies_dir = os.path.join(project_root, "movies")
playblast_movies_dir(project_root) == join(project_root, "movies")

\* alembic_loop without the check of the item type: every entry of the
\* directory is processed
RECURSIVE alembic_loop_unfiltered(_, _, _, _)
alembic_loop_unfiltered(st, parent_item, cache_dir, names) ==
    IF names = <<>> THEN st
    ELSE LET filename == Head(names)
             cache_path == join(cache_dir, filename)
             s1 == Log(st, "get_item_info", NoItem, <<filename>>)
             s2 == base_process_file(s1, parent_item, cache_path)
         IN alembic_loop_unfiltered(s2, parent_item, cache_dir, Tail(names))

\* the loop of collect_alembic_caches over the listing of cache_dir
RECURSIVE alembic_loop(_, _, _, _)
alembic_loop(st, parent_item, cache_dir, names) ==
    IF names = <<>> THEN st
    ELSE LET filename == Head(names)
             cache_path == join(cache_dir, filename)
             info == get_item_info(<<filename>>)
             s1 == Log(st, "get_item_info", NoItem, <<filename>>)
             s2 == IF info.item_type # "file.alembic" THEN s1
                   ELSE base_process_file(s1, parent_item, cache_path)
         IN alembic_loop(s2, parent_item, cache_dir, Tail(names))

collect_alembic_caches(st, parent_item, project_root) ==
    IF st.raised THEN st
    ELSE
    LET cache_dir == alembic_cache_dir(project_root)
        s0 == Log(st, "collect_alembic_caches", parent_item, project_root)
        s1 == Log(s0, "exists", NoItem, cache_dir)
    IN IF ~exists(cache_dir) THEN [s1 EXCEPT !.ret = NoItem]
       ELSE LET ls == listdir(cache_dir)
                s2 == Log(s1, "listdir", NoItem, cache_dir)
            IN IF ls.raised THEN [s2 EXCEPT !.raised = TRUE, !.ret = NoItem]
               ELSE [alembic_loop(s2, parent_item, cache_dir, ls.names)
                       EXCEPT !.ret = NoItem]

\* playblast_loop handing the bare file name, not the joined path, to the
\* base process_file
RECURSIVE playblast_loop_bare_name(_, _, _, _)
playblast_loop_bare_name(st, parent_item, movies_dir, names) ==
    IF names = <<>> THEN st
    ELSE LET filename == Head(names)
             info == get_item_info(<<filename>>)
             s1 == Log(st, "get_item_info", NoItem, <<filename>>)
             s2 == IF info.item_type # "file.movie" THEN s1
                   ELSE base_process_file(s1, parent_item, <<filename>>)
         IN playblast_loop_bare_name(s2, parent_item, movies_dir, Tail(names))

\* the loop of collect_playblasts over the listing of movies_dir
RECURSIVE playblast_loop(_, _, _, _)
playblast_loop(st, parent_item, movies_dir, names) ==
    IF names = <<>> THEN st
    ELSE LET filename == Head(names)
             info == get_item_info(<<filename>>)
             s1 == Log(st, "get_item_info", NoItem, <<filename>>)
             movie_path == join(movies_dir, filename)
             s2 == IF info.item_type # "file.movie" THEN s1
                   ELSE base_process_file(s1, parent_item, movie_path)
         IN playblast_loop(s2, parent_item, movies_dir, Tail(names))

\* collect_playblasts without the check that movies_dir exists
collect_playblasts_unguarded(st, parent_item, project_root) ==
    IF st.raised THEN st
    ELSE
    LET movies_dir == playblast_movies_dir(project_root)
        s0 == Log(st, "collect_playblasts", parent_item, project_root)
        ls == listdir(movies_dir)
        s2 == Log(s0, "listdir", NoItem, movies_dir)
    IN IF ls.raised THEN [s2 EXCEPT !.raised = TRUE, !.ret = NoItem]
       ELSE [playblast_loop(s2, parent_item, movies_dir, ls.names)
               EXCEPT !.ret = NoItem]

collect_playblasts(st, parent_item, project_root) ==
    IF st.raised THEN st
    ELSE
    LET movies_dir == playblast_movies_dir(project_root)
        s0 == Log(st, "collect_playblasts", parent_item, project_root)
        s1 == Log(s0, "exists", NoItem, movies_dir)
    IN IF ~exists(movies_dir) THEN [s1 EXCEPT !.ret = NoItem]
       ELSE LET ls == listdir(movies_dir)
                s2 == Log(s1, "listdir", NoItem, movies_dir)
            IN IF ls.raised THEN [s2 EXCEPT !.raised = TRUE, !.ret = NoItem]
               ELSE [playblast_loop(s2, parent_item, movies_dir, ls.names)
                       EXCEPT !.ret = NoItem]

\* scene_display_name without the test for an unsaved document
scene_display_name_always_filename(path) ==
    get_file_path_components(path).filename

\* display_name of the scene item: the file name of the current document,
\* "Untitled Scene" when the document has no path
scene_display_name(path) ==
    IF path # <<>> THEN get_file_path_components(path).filename
    ELSE "Untitled Scene"

\* os.path.join(self.disk_location, os.pardir, "icons", "maya.png")
maya_icon_path == <<"<disk_location>", "..", "icons", "maya.png">>

\* collect_current_maya_scene that reuses the scene item parent_item
\* already has instead of creating another
collect_current_maya_scene_reusing(st, parent_item) ==
    LET old == {i \in 1..Len(st.items) :
                  st.items[i].parent = parent_item /\ st.items[i].type = "maya.scene"}
        c == IF old = {}
             THEN create_item(st, parent_item, "maya.scene",
                              "Current Maya Scene", scene_display_name(scenePath))
             ELSE [st EXCEPT !.ret = CHOOSE i \in old : TRUE]
        i1 == set_property(c.items, c.ret, "project_root", workspaceRoot)
        i2 == set_icon_from_path(i1, c.ret, maya_icon_path)
    IN [c EXCEPT !.items = i2]

collect_current_maya_scene(st, parent_item) ==
    LET path == scenePath
        display_name == scene_display_name(path)
        c == create_item(st, parent_item, "maya.scene", "Current Maya Scene",
                         display_name)
        scene_item == c.ret
        project_root == workspaceRoot
        i1 == set_property(c.items, scene_item, "project_root", project_root)
        i2 == set_icon_from_path(i1, scene_item, maya_icon_path)
    IN [c EXCEPT !.items = i2, !.ret = scene_item]

\* the test of project_root that takes the empty string for a root
has_project_root_always(project_root) == project_root = project_root

\* if project_root: (the empty string is falsy)
has_project_root(project_root) == project_root # <<>>

process_current_scene(st, parent_item) ==
    LET s0 == collect_current_maya_scene(st, parent_item)
        item == s0.ret
        project_root == s0.items[item].properties["project_root"]
    IN IF has_project_root(project_root)
       THEN LET s1 == collect_playblasts(s0, item, project_root)
                s2 == collect_alembic_caches(s1, item, project_root)
            IN [s2 EXCEPT !.ret = NoItem]
       ELSE [s0 EXCEPT !.ret = NoItem]

\* if os.path.basename(folder) == "scenes":
is_scenes_folder(folder) == basename(folder) = "scenes"

\* the scenes folder itself taken for the project root
scene_project_root_is_folder(folder) == folder

\* project_root = os.path.dirname(folder)
scene_project_root(folder) == dirname(folder)

\* process_file without the test of the item type: every file in a
\* folder "scenes" is treated as a Maya file
process_file_any_type(st, parent_item, path) ==
    LET b == base_process_file(st, parent_item, path)
        item == b.ret
        folder == get_file_path_components(path).folder
    IN IF is_scenes_folder(folder)
       THEN LET project_root == scene_project_root(folder)
                s1 == [b EXCEPT !.items = set_property(
                          b.items, item, "project_root", project_root)]
                s2 == collect_alembic_caches(s1, item, project_root)
                s3 == collect_playblasts(s2, item, project_root)
            IN IF s3.raised THEN s3 ELSE [s3 EXCEPT !.ret = item]
       ELSE b

process_file(st, parent_item, path) ==
    LET b == base_process_file(st, parent_item, path)
        item == b.ret
    IN IF b.items[item].type = "file.maya"
       THEN LET file_info == get_file_path_components(path)
                folder == file_info.folder
            IN IF is_scenes_folder(folder)
               THEN LET project_root == scene_project_root(folder)
                        s1 == [b EXCEPT !.items = set_property(
                                  b.items, item, "project_root", project_root)]
                        s2 == collect_alembic_caches(s1, item, project_root)
                        s3 == collect_playblasts(s2, item, project_root)
                    IN IF s3.raised THEN s3 ELSE [s3 EXCEPT !.ret = item]
               ELSE b
       ELSE b

\* ------------------------------------------------------------- the run
\* listings without repeated names, up to MaxDirEntries long
Listings ==
    LET Listed(keep) == LET Test(n) == n \in keep IN SelectSeq(EntryOrder, Test)
    IN {Listed(keep) : keep \in
          {k \in SUBSET EntryNames : Cardinality(k) <= MaxDirEntries}}

\* the file systems of a run: one project root on disk, each of its two
\* collected directories either missing or holding a listing
Disks ==
    UNION {
      { [d \in {} |-> <<>>] }
      \cup { (playblast_movies_dir(r) :> m) : m \in Listings }
      \cup { (alembic_cache_dir(r) :> a) : a \in Listings }
      \cup { (playblast_movies_dir(r) :> m) @@ (alembic_cache_dir(r) :> a) :
                m \in Listings, a \in Listings }
      : r \in DiskRoots }

Call(op, parent, path, pre, st) ==
    [op |-> op, parent |-> parent, path |-> path, pre |-> pre,
     ret |-> st.ret, raised |-> st.raised, trace |-> st.trace]

Start(its) == [items |-> its, trace |-> <<>>, ret |-> NoItem, raised |-> FALSE]

\* the items a call takes as parent_item: the root item or a top-level item
Parents == {RootItem} \cup {i \in 1..Len(items) : items[i].parent = RootItem}

Init ==
    /\ items = <<>>
    /\ fs \in Disks
    /\ scenePath \in ScenePaths
    /\ workspaceRoot \in WorkspaceRoots
    /\ last = [op |-> "init", parent |-> NoItem, path |-> NoPath, pre |-> <<>>,
               ret |-> NoItem, raised |-> FALSE, trace |-> <<>>]
    /\ history = <<>>

Finish(op, parent, path, st) ==
    /\ items' = st.items
    /\ last' = Call(op, parent, path, items, st)
    /\ history' = Append(history, [op |-> op, parent |-> parent])
    /\ UNCHANGED <<fs, scenePath, workspaceRoot>>

ProcessFile ==
    /\ Len(history) < MaxCalls
    /\ \E parent_item \in Parents, path \in FilePaths :
          Finish("process_file", parent_item, path,
                 process_file(Start(items), parent_item, path))

ProcessCurrentScene ==
    /\ Len(history) < MaxCalls
    /\ \E parent_item \in Parents :
          Finish("process_current_scene", parent_item, NoPath,
                 process_current_scene(Start(items), parent_item))

CollectCurrentMayaScene ==
    /\ Len(history) < MaxCalls
    /\ \E parent_item \in Parents :
          Finish("collect_current_maya_scene", parent_item, NoPath,
                 collect_current_maya_scene(Start(items), parent_item))

CollectAlembicCaches ==
    /\ Len(history) < MaxCalls
    /\ \E parent_item \in Parents, project_root \in DiskRoots :
          Finish("collect_alembic_caches", parent_item, project_root,
                 collect_alembic_caches(Start(items), parent_item, project_root))

CollectPlayblasts ==
    /\ Len(history) < MaxCalls
    /\ \E parent_item \in Parents, project_root \in DiskRoots :
          Finish("collect_playblasts", parent_item, project_root,
                 collect_playblasts(Start(items), parent_item, project_root))

Next ==
    \/ ProcessFile
    \/ ProcessCurrentScene
    \/ CollectCurrentMayaScene
    \/ CollectAlembicCaches
    \/ CollectPlayblasts

Spec == Init /\ [][Next]_vars

\* the publisher's own use of the hook: only the two entry points
NextEntry ==
    \/ ProcessFile
    \/ ProcessCurrentScene

SpecEntry == Init /\ [][NextEntry]_vars

\* ------------------------------------------------- reading a finished call
\* the items the last call created
NewItems == (Len(last.pre) + 1)..Len(items)

\* the first item the last call created
FirstNew == Len(last.pre) + 1

\* the last call left every earlier item as it was
KeepsEarlierItems ==
    /\ Len(items) >= Len(last.pre)
    /\ SubSeq(items, 1, Len(last.pre)) = last.pre

ChildrenOf(id) == {i \in 1..Len(items) : items[i].parent = id}

HasProperty(id, key) == key \in DOMAIN items[id].properties

\* the events of one kind in the last call, in order
IsKind(e, op) == e.op = op
EventsOf(op) == LET Test(e) == IsKind(e, op) IN SelectSeq(last.trace, Test)

Ran(op) == EventsOf(op) # <<>>

\* the calls of the base process_file that a listing asks for: one for each
\* entry of the wanted type, in the listing's order
WantedNames(names, type) ==
    LET Test(n) == ItemTypeOf(n) = type IN SelectSeq(names, Test)

WantedCalls(parent, dir, names, type) ==
    LET w == WantedNames(names, type)
    IN [i \in 1..Len(w) |-> Event("base.process_file", parent, dir \o <<w[i]>>)]

\* the listing of a directory, empty when the directory is missing
ListingOrNone(dir) == IF dir \in DOMAIN fs THEN fs[dir] ELSE <<>>

CacheDirOf(root) == root \o <<"cache", "alembic">>
MoviesDirOf(root) == root \o <<"movies">>

\* process_file was called on a Maya file that sits in a folder "scenes"
IsSceneFileCall ==
    /\ last.op = "process_file"
    /\ ItemTypeOf(last.path[Len(last.path)]) = "file.maya"
    /\ Len(last.path) >= 2
    /\ last.path[Len(last.path) - 1] = "scenes"

\* ------------------------------------------------------------------- C1
\* C1 as stated: after process_current_scene, or process_file on a Maya
\* file in a folder "scenes", the scene item has project_root and every
\* item under it has a project_root property equal to the scene item's.
C1_ChildrenCarryProjectRoot ==
    (last.op = "process_current_scene" \/ IsSceneFileCall) =>
        /\ HasProperty(FirstNew, "project_root")
        /\ \A c \in ChildrenOf(FirstNew) :
              /\ HasProperty(c, "project_root")
              /\ items[c].properties["project_root"]
                    = items[FirstNew].properties["project_root"]

\* C1 amended: the scene item has project_root; every item under it is a
\* file of <project_root>/cache/alembic or <project_root>/movies and holds
\* only the path property the base class gave it, no project_root.
C1_ChildrenLieUnderProjectRoot ==
    (last.op = "process_current_scene" \/ IsSceneFileCall) =>
        /\ HasProperty(FirstNew, "project_root")
        /\ LET root == items[FirstNew].properties["project_root"]
           IN \A c \in ChildrenOf(FirstNew) :
                /\ DOMAIN items[c].properties = {"path"}
                /\ \/ /\ items[c].type = "file.alembic"
                      /\ dirname(items[c].properties["path"]) = CacheDirOf(root)
                   \/ /\ items[c].type = "file.movie"
                      /\ dirname(items[c].properties["path"]) = MoviesDirOf(root)

\* a scene item with a cache item and a movie item under it
C1_Witness ==
    /\ last.op = "process_current_scene" \/ IsSceneFileCall
    /\ \E a, m \in ChildrenOf(FirstNew) :
          items[a].type = "file.alembic" /\ items[m].type = "file.movie"

\* ------------------------------------------------------------------- C2
\* C2: a collector whose directory is missing returns without an error,
\* classifies and processes nothing and changes no item; and in
\* process_file and process_current_scene the two collectors run together,
\* each collecting its own directory whatever the other found.
C2_MissingDirectorySkipped ==
    /\ ~last.raised
    /\ (last.op = "collect_alembic_caches" /\ CacheDirOf(last.path) \notin DOMAIN fs) =>
          /\ items = last.pre
          /\ last.trace = << Event("collect_alembic_caches", last.parent, last.path),
                             Event("exists", NoItem, CacheDirOf(last.path)) >>
    /\ (last.op = "collect_playblasts" /\ MoviesDirOf(last.path) \notin DOMAIN fs) =>
          /\ items = last.pre
          /\ last.trace = << Event("collect_playblasts", last.parent, last.path),
                             Event("exists", NoItem, MoviesDirOf(last.path)) >>
    /\ last.op \in {"process_file", "process_current_scene"} =>
          /\ Ran("collect_alembic_caches") <=> Ran("collect_playblasts")
          /\ Ran("collect_alembic_caches") =>
               LET root == EventsOf("collect_alembic_caches")[1].path
                   cache == CacheDirOf(root)
                   movies == MoviesDirOf(root)
               IN /\ Len(EventsOf("collect_alembic_caches")) = 1
                  /\ EventsOf("collect_playblasts")
                        = << Event("collect_playblasts", FirstNew, root) >>
                  /\ cache \notin DOMAIN fs =>
                        {items[c].properties["path"] : c \in ChildrenOf(FirstNew)}
                          = {movies \o <<n>> : n \in
                               {k \in EntryNames :
                                  /\ \E i \in 1..Len(ListingOrNone(movies)) :
                                        ListingOrNone(movies)[i] = k
                                  /\ ItemTypeOf(k) = "file.movie"}}
                  /\ movies \notin DOMAIN fs =>
                        {items[c].properties["path"] : c \in ChildrenOf(FirstNew)}
                          = {cache \o <<n>> : n \in
                               {k \in EntryNames :
                                  /\ \E i \in 1..Len(ListingOrNone(cache)) :
                                        ListingOrNone(cache)[i] = k
                                  /\ ItemTypeOf(k) = "file.alembic"}}

\* process_file met a missing cache/alembic and still collected a movie
C2_Witness ==
    /\ IsSceneFileCall
    /\ CacheDirOf(items[FirstNew].properties["project_root"]) \notin DOMAIN fs
    /\ \E m \in ChildrenOf(FirstNew) : items[m].type = "file.movie"

\* ------------------------------------------------------------------- C3
\* C3: collect_current_maya_scene adds exactly one item, a child of
\* parent_item of type "maya.scene", and returns it; the item is named by
\* the file name of the current document, or "Untitled Scene" when the
\* document has no path; its project_root property is present and is the
\* host's workspace root, also when that root is empty.
C3_SceneItemCreated ==
    last.op = "collect_current_maya_scene" =>
        /\ KeepsEarlierItems
        /\ Len(items) = Len(last.pre) + 1
        /\ last.ret = FirstNew
        /\ items[FirstNew].parent = last.parent
        /\ items[FirstNew].type = "maya.scene"
        /\ items[FirstNew].name =
              (IF scenePath = <<>> THEN "Untitled Scene"
               ELSE scenePath[Len(scenePath)])
        /\ HasProperty(FirstNew, "project_root")
        /\ items[FirstNew].properties["project_root"] = workspaceRoot

\* an unsaved document in a host that reports no workspace root
C3_Witness ==
    /\ last.op = "collect_current_maya_scene"
    /\ scenePath = <<>>
    /\ workspaceRoot = <<>>
    /\ items[last.ret].name = "Untitled Scene"

\* ------------------------------------------------------------------- C4
\* C4: process_file returns the item the base class process_file created
\* for the path; when that item is not of type "file.maya" the call does
\* what the base class alone does: one new item, no project_root property,
\* no collector run.
C4_NonMayaFileLeftToBase ==
    last.op = "process_file" =>
        /\ last.ret = FirstNew
        /\ last.trace[1] = Event("base.process_file", last.parent, last.path)
        /\ items[last.ret].parent = last.parent
        /\ items[last.ret].properties["path"] = last.path
        /\ items[last.ret].type # "file.maya" =>
              /\ items = base_process_file(Start(last.pre), last.parent,
                                           last.path).items
              /\ Len(last.trace) = 1
              /\ ~HasProperty(last.ret, "project_root")
              /\ ~Ran("collect_alembic_caches")
              /\ ~Ran("collect_playblasts")

\* a file that is not a Maya file, in a folder "scenes" whose project has
\* movies on disk
C4_Witness ==
    /\ last.op = "process_file"
    /\ last.path = <<"proj", "scenes", "notes.txt">>
    /\ items[last.ret].type = "file.unknown"
    /\ MoviesDirOf(<<"proj">>) \in DOMAIN fs
    /\ fs[MoviesDirOf(<<"proj">>)] # <<>>

\* ------------------------------------------------------------------- C5
\* C5: for a Maya file, process_file sets project_root and runs the two
\* collectors exactly when the file's folder is named "scenes", and then
\* project_root is the parent directory of that folder; for a Maya file in
\* any other folder the item has no project_root and gets no child.
C5_ScenesFolderDecides ==
    (last.op = "process_file" /\ items[FirstNew].type = "file.maya") =>
        LET folder == SubSeq(last.path, 1, Len(last.path) - 1)
            inScenes == folder # <<>> /\ folder[Len(folder)] = "scenes"
        IN /\ HasProperty(FirstNew, "project_root") <=> inScenes
           /\ Ran("collect_alembic_caches") <=> inScenes
           /\ Ran("collect_playblasts") <=> inScenes
           /\ inScenes =>
                /\ items[FirstNew].properties["project_root"]
                      = SubSeq(folder, 1, Len(folder) - 1)
                /\ EventsOf("collect_alembic_caches")[1].path
                      = SubSeq(folder, 1, Len(folder) - 1)
                /\ EventsOf("collect_playblasts")[1].path
                      = SubSeq(folder, 1, Len(folder) - 1)
           /\ ~inScenes =>
                /\ Len(items) = Len(last.pre) + 1
                /\ ChildrenOf(FirstNew) = {}

\* a Maya file in proj/scenes whose project root proj had files to collect
C5_Witness ==
    /\ last.op = "process_file"
    /\ last.path = <<"proj", "scenes", "shot.ma">>
    /\ items[FirstNew].properties["project_root"] = <<"proj">>
    /\ ChildrenOf(FirstNew) # {}

\* ------------------------------------------------------------------- C6
\* C6: process_current_scene runs the two collectors exactly when the scene
\* item's project_root is not empty; with an empty workspace root the scene
\* item has no child and no directory is looked at; with a root the
\* collectors run for an unsaved document too.
C6_CollectOnlyWithProjectRoot ==
    last.op = "process_current_scene" =>
        /\ items[FirstNew].type = "maya.scene"
        /\ Ran("collect_playblasts") <=> workspaceRoot # <<>>
        /\ Ran("collect_alembic_caches") <=> workspaceRoot # <<>>
        /\ workspaceRoot = <<>> =>
              /\ Len(items) = Len(last.pre) + 1
              /\ ChildrenOf(FirstNew) = {}
              /\ ~Ran("exists")
              /\ ~Ran("listdir")
        /\ workspaceRoot # <<>> =>
              /\ EventsOf("collect_playblasts")
                    = << Event("collect_playblasts", FirstNew, workspaceRoot) >>
              /\ EventsOf("collect_alembic_caches")
                    = << Event("collect_alembic_caches", FirstNew, workspaceRoot) >>

\* an unsaved document in a workspace whose files were collected
C6_Witness ==
    /\ last.op = "process_current_scene"
    /\ scenePath = <<>>
    /\ items[FirstNew].name = "Untitled Scene"
    /\ workspaceRoot # <<>>
    /\ ChildrenOf(FirstNew) # {}

\* ------------------------------------------------------------------- C7
\* C7: a collector that finds its directory calls the base process_file
\* once, with parent_item and <directory>/<filename>, for each entry the
\* classifier gives the collector's type, and for no other entry; the
\* number of items added is the number of such entries.
C7_OneItemPerMatchingEntry ==
    /\ (last.op = "collect_alembic_caches" /\ CacheDirOf(last.path) \in DOMAIN fs) =>
          LET dir == CacheDirOf(last.path)
          IN /\ EventsOf("base.process_file")
                   = WantedCalls(last.parent, dir, fs[dir], "file.alembic")
             /\ EventsOf("get_item_info")
                   = [i \in 1..Len(fs[dir]) |->
                        Event("get_item_info", NoItem, <<fs[dir][i]>>)]
             /\ Len(items) - Len(last.pre)
                   = Len(WantedNames(fs[dir], "file.alembic"))
             /\ \A c \in NewItems :
                   /\ items[c].parent = last.parent
                   /\ items[c].type = "file.alembic"
    /\ (last.op = "collect_playblasts" /\ MoviesDirOf(last.path) \in DOMAIN fs) =>
          LET dir == MoviesDirOf(last.path)
          IN /\ EventsOf("base.process_file")
                   = WantedCalls(last.parent, dir, fs[dir], "file.movie")
             /\ EventsOf("get_item_info")
                   = [i \in 1..Len(fs[dir]) |->
                        Event("get_item_info", NoItem, <<fs[dir][i]>>)]
             /\ Len(items) - Len(last.pre)
                   = Len(WantedNames(fs[dir], "file.movie"))
             /\ \A c \in NewItems :
                   /\ items[c].parent = last.parent
                   /\ items[c].type = "file.movie"

\* a cache directory that lists a cache and a file of another type
C7_Witness ==
    /\ last.op = "collect_alembic_caches"
    /\ CacheDirOf(last.path) \in DOMAIN fs
    /\ Len(fs[CacheDirOf(last.path)]) = 2
    /\ Len(items) - Len(last.pre) = 1

\* ------------------------------------------------------------------- C8
\* C8: the entry points only add items: a call leaves every earlier item
\* in place and unchanged, and each parent holds one "maya.scene" item for
\* each process_current_scene call made on it.
SceneCallsOn(p) ==
    {i \in 1..Len(history) :
        history[i].op = "process_current_scene" /\ history[i].parent = p}

SceneItemsOf(p) == {i \in ChildrenOf(p) : items[i].type = "maya.scene"}

C8_OnlyAddsItems ==
    /\ KeepsEarlierItems
    /\ \A p \in {RootItem} \cup (1..Len(items)) :
          Cardinality(SceneItemsOf(p)) = Cardinality(SceneCallsOn(p))

\* process_current_scene ran twice on one parent, after which the parent
\* holds two scene items
C8_Witness ==
    \E p \in {RootItem} \cup (1..Len(items)) :
        /\ Cardinality(SceneCallsOn(p)) = 2
        /\ Cardinality(SceneItemsOf(p)) = 2

====
